---- MODULE Spec2Model ----
(***************************************************************************)
(* Banded SIMD pair HMM of octopus (core/models/pairhmm/simd_pair_hmm.hpp).*)
(* PairHMM<InstructionSetPolicy>::align, score-only and alignment-         *)
(* recovering overloads, modelled half step by half step on vectors of     *)
(* band_size lanes of 16-bit words.  A lane is kept as its unsigned 16-bit *)
(* pattern (0..65535); S16 gives the signed value the instructions compare.*)
(***************************************************************************)
EXTENDS Integers, Sequences, FiniteSets, TLC

VARIABLES
    band_size,      \* lanes of the policy's VectorType
    ndebug,         \* the build compiles assert() out
    truth, target, qualities, gap_open, gap_extend, nuc_prior,   \* arguments
    truth_len, target_len,                                       \* arguments
    pc,             \* position in the two calls made one after the other
    s, minscore, minscoreidx,
    m1, i1, d1, m2, i2, d2,
    initmask, initmask2, truthwin, targetwin, qualitieswin,
    gap_open_win, gap_extend_win, truthnqual,
    backpointers,
    i, x, y, alnidx, state,
    align1, align2, first_pos,
    score_result,   \* value returned by the score-only overload
    align_result    \* value returned by the overload with alignment

inputs == <<band_size, ndebug, truth, target, qualities, gap_open, gap_extend, nuc_prior,
            truth_len, target_len>>
regs   == <<m1, i1, d1, m2, i2, d2, initmask, initmask2, truthwin, targetwin,
            qualitieswin, gap_open_win, gap_extend_win, truthnqual>>
walk   == <<i, x, y, alnidx, state>>
outs   == <<align1, align2, first_pos>>
vars   == <<inputs, pc, s, minscore, minscoreidx, regs, backpointers, walk, outs,
            score_result, align_result>>

----------------------------------------------------------------------------
(* Characters, as the bytes the code compares.                             *)
chA    == 65
chC    == 67
chG    == 71
chT    == 84
chN    == 78
chZero == 48
gap_label == 45

(* Constants of the class.                                                 *)
score_bytes   == 2
infinity      == 30720
trace_bits    == 2
n_score       == 8
max_n_quality == 64
bitmask       == 32768
match_label   == 0
insert_label  == 1
delete_label  == 3

----------------------------------------------------------------------------
(* 16-bit words.                                                           *)
Word  == 65536
U16(n) == n % Word
S16(u) == LET w == u IN IF w >= 32768 THEN w - Word ELSE w
Shl(n, k) == n * (2 ^ k)
Shr(n, k) == n \div (2 ^ k)
MinInt(a, b) == IF a < b THEN a ELSE b
MaxInt(a, b) == IF a > b THEN a ELSE b
At(seq, k) == seq[k + 1]

RECURSIVE BitAnd(_, _)
BitAnd(a, b) ==
    IF a = 0 \/ b = 0 THEN 0
    ELSE (a % 2) * (b % 2) + 2 * BitAnd(a \div 2, b \div 2)

(* The vector backend (the InstructionSetPolicy): lane k of a register is  *)
(* v[k], k in 0..band_size-1.                                              *)
Lanes(v) == DOMAIN v
NLanes(v) == band_size

vectorise(B, n) == [k \in 0..(B - 1) |-> U16(n)]
vectorise_zero_set_last(B, n) == [k \in 0..(B - 1) |-> IF k = 0 THEN U16(n) ELSE 0]
vectorise_reverse(B, src) == [k \in 0..(B - 1) |-> U16(At(src, k))]
vectorise_reverse_lshift(B, g, shift) ==
    IF g.ptr THEN [k \in 0..(B - 1) |-> U16(Shl(At(g.val, k), shift))]
    ELSE vectorise(B, Shl(g.val, shift))

_extract(v, idx) == v[MinInt(idx, NLanes(v) - 1)]
_insert(v, n, idx) == [v EXCEPT ![idx] = U16(n)]
_add(a, b) == [k \in Lanes(a) |-> U16(a[k] + b[k])]
_and(a, b) == [k \in Lanes(a) |-> BitAnd(a[k], b[k])]
_andnot(a, b) == [k \in Lanes(a) |-> LET bk == b[k] IN bk - BitAnd(a[k], bk)]
_or(a, b) == [k \in Lanes(a) |-> LET ak == a[k] bk == b[k] IN ak + bk - BitAnd(ak, bk)]
_cmpeq(a, b) == [k \in Lanes(a) |-> IF a[k] = b[k] THEN Word - 1 ELSE 0]
_min(a, b) == [k \in Lanes(a) |-> LET ak == a[k] bk == b[k]
                                  IN  IF S16(ak) < S16(bk) THEN ak ELSE bk]

ByteOf(v, j) ==
    IF j < 0 \/ j >= 2 * NLanes(v) THEN 0
    ELSE IF j % 2 = 0 THEN v[j \div 2] % 256 ELSE v[j \div 2] \div 256
_left_shift(n, v) ==
    [k \in Lanes(v) |-> ByteOf(v, 2 * k - n) + 256 * ByteOf(v, 2 * k + 1 - n)]
_right_shift(n, v) ==
    [k \in Lanes(v) |-> ByteOf(v, 2 * k + n) + 256 * ByteOf(v, 2 * k + 1 + n)]
_left_shift_words(n, v) == [k \in Lanes(v) |-> U16(Shl(v[k], n))]

(* Registers the class keeps as members.                                   *)
_inf(B) == vectorise(B, infinity)
_nscore_m_inf(B) == vectorise(B, n_score - infinity)
_n(B) == vectorise(B, chN)
_three(B) == vectorise(B, 3)

update_gap_penalty(shift, current, source, gap_idx) ==
    IF source.ptr
    THEN _insert(_right_shift(score_bytes, current),
                 Shl(At(source.val, gap_idx), shift), NLanes(current) - 1)
    ELSE current
----------------------------------------------------------------------------
(* Initial values of the locals of either overload (lines 95-105, 168-180).*)
EnterRegs(B, tr, go, ge) ==
    [m1 |-> _inf(B), i1 |-> _inf(B), d1 |-> _inf(B),
     m2 |-> _inf(B), i2 |-> _inf(B), d2 |-> _inf(B),
     initmask  |-> vectorise_zero_set_last(B, -1),
     initmask2 |-> vectorise_zero_set_last(B, -bitmask),
     truthwin  |-> vectorise_reverse(B, tr),
     targetwin |-> _inf(B),
     qualitieswin |-> vectorise(B, Shl(max_n_quality, trace_bits)),
     gap_open_win   |-> vectorise_reverse_lshift(B, go, trace_bits),
     gap_extend_win |-> vectorise_reverse_lshift(B, ge, trace_bits),
     truthnqual |-> _add(_and(_cmpeq(vectorise_reverse(B, tr), _n(B)), _nscore_m_inf(B)),
                         _inf(B))]

_nuc_prior == vectorise(band_size, Shl(nuc_prior, trace_bits))

(* Lines 108-116 and 183-191: the target and quality windows advance.      *)
NextTargetwin ==
    _insert(_left_shift(score_bytes, targetwin),
            IF s \div 2 < target_len THEN At(target, s \div 2) ELSE chZero, 0)
NextQualitieswin ==
    _insert(_left_shift(score_bytes, qualitieswin),
            IF s \div 2 < target_len THEN Shl(At(qualities, s \div 2), trace_bits)
            ELSE Shl(max_n_quality, trace_bits), 0)

(* Lines 130-135 and 215-220: the truth base entering the band.            *)
Pos == band_size + s \div 2
PosInRange == Pos < truth_len
Base == IF PosInRange THEN At(truth, Pos) ELSE chN
GapIdx == IF PosInRange THEN Pos ELSE truth_len - 1
NextTruthwin == _insert(_right_shift(score_bytes, truthwin), Base, band_size - 1)
(* A faulty NextTruthnqual: the cap of an incoming N is left at infinity.   *)
NextTruthnqualUncapped ==
    _insert(_right_shift(score_bytes, truthnqual), infinity, band_size - 1)
NextTruthnqual ==
    _insert(_right_shift(score_bytes, truthnqual),
            IF Base = chN THEN n_score ELSE infinity, band_size - 1)

(* A faulty Emission: the quality is not capped by the truth's N.          *)
EmissionUncapped(tw, qw, trw, tnq) == _andnot(_cmpeq(tw, trw), qw)
(* A faulty Emission: equal bases are charged like unequal ones.           *)
EmissionIgnoringMatch(tw, qw, trw, tnq) == _min(qw, tnq)
Emission(tw, qw, trw, tnq) == _min(_andnot(_cmpeq(tw, trw), qw), tnq)

(* Lines 94 and 167: the assert at the head of either overload.  A build   *)
(* with NDEBUG compiles it out and runs on.                                *)
AssertHolds == truth_len > band_size /\ truth_len = target_len + 2 * band_size - 1
AssertFail ==
    /\ ~ndebug
    /\ ~AssertHolds
    /\ (pc = "score_loop" /\ s = 0) \/ pc = "score_done"
    /\ pc' = "aborted"
    /\ UNCHANGED <<inputs, s, minscore, minscoreidx, regs, backpointers, walk, outs,
                   score_result, align_result>>

(* One iteration of the main loop of the score-only overload, lines        *)
(* 106-148.                                                                 *)
ScoreLoop ==
    /\ pc = "score_loop"
    /\ ndebug \/ AssertHolds
    /\ s <= 2 * (target_len + band_size)
    /\ LET tw   == NextTargetwin
           qw   == NextQualitieswin
           m1a  == _or(initmask2, _andnot(initmask, m1))
           m2a  == _or(initmask2, _andnot(initmask, m2))
           m1b  == _min(m1a, _min(i1, d1))
           min1 == IF s \div 2 >= target_len
                   THEN MinInt(S16(_extract(m1b, MaxInt(0, s \div 2 - target_len))), minscore)
                   ELSE minscore
           m1c  == _add(m1b, Emission(tw, qw, truthwin, truthnqual))
           d1a  == _min(_add(d2, gap_extend_win),
                        _add(_min(m2a, i2), _right_shift(score_bytes, gap_open_win)))
           d1b  == _insert(_left_shift(score_bytes, d1a), infinity, 0)
           i1a  == _add(_min(_add(i2, gap_extend_win), _add(m2a, gap_open_win)), _nuc_prior)
           trw  == NextTruthwin
           tnq  == NextTruthnqual
           gow  == update_gap_penalty(score_bytes, gap_open_win, gap_open, GapIdx)
           gew  == update_gap_penalty(score_bytes, gap_extend_win, gap_extend, GapIdx)
           m2b  == _min(m2a, _min(i2, d2))
           min2 == IF s \div 2 >= target_len
                   THEN MinInt(S16(_extract(m2b, s \div 2 - target_len)), min1)
                   ELSE min1
           m2c  == _add(m2b, Emission(tw, qw, trw, tnq))
       IN  /\ targetwin' = tw
           /\ qualitieswin' = qw
           /\ m1' = m1c
           /\ d1' = d1b
           /\ i1' = i1a
           /\ truthwin' = trw
           /\ truthnqual' = tnq
           /\ gap_open_win' = gow
           /\ gap_extend_win' = gew
           /\ initmask' = _left_shift(score_bytes, initmask)
           /\ initmask2' = _left_shift(score_bytes, initmask2)
           /\ minscore' = min2
           /\ m2' = m2c
           /\ d2' = _min(_add(d1b, gew), _add(_min(m1c, i1a), gow))
           /\ i2' = _insert(_add(_min(_add(_right_shift(score_bytes, i1a), gew),
                                      _add(_right_shift(score_bytes, m1c), gow)),
                                 _nuc_prior),
                            infinity, band_size - 1)
    /\ s' = s + 2
    /\ UNCHANGED <<inputs, pc, minscoreidx, backpointers, walk, outs,
                   score_result, align_result>>

(* Lines 149 and 300: the running minimum as the returned score.           *)
(* A faulty return: the bias is not added back.                            *)
ReturnedUnbiased(ms) == Shr(ms, trace_bits)
(* A faulty return: the tag bits are not shifted out.                      *)
ReturnedUnshifted(ms) == ms + bitmask
Returned(ms) == Shr(ms + bitmask, trace_bits)

(* A faulty ScoreReturn: the loop may be left one iteration early.         *)
ScoreReturnEarly ==
    /\ pc = "score_loop"
    /\ s > 2 * (target_len + band_size) - 2
    /\ score_result' = Returned(minscore)
    /\ pc' = "score_done"
    /\ UNCHANGED <<inputs, s, minscore, minscoreidx, regs, backpointers, walk, outs,
                   align_result>>
(* Line 149: the score-only overload returns.                              *)
ScoreReturn ==
    /\ pc = "score_loop"
    /\ s > 2 * (target_len + band_size)
    /\ score_result' = Returned(minscore)
    /\ pc' = "score_done"
    /\ UNCHANGED <<inputs, s, minscore, minscoreidx, regs, backpointers, walk, outs,
                   align_result>>
----------------------------------------------------------------------------
(* Entry of the overload with alignment, lines 167-180, made by the caller *)
(* after the score-only call returned (CHECK_ALIGNER).                     *)
AlignEnter ==
    /\ pc = "score_done"
    /\ ndebug \/ AssertHolds
    /\ LET r == EnterRegs(band_size, truth, gap_open, gap_extend)
       IN  /\ m1' = r.m1 /\ i1' = r.i1 /\ d1' = r.d1
           /\ m2' = r.m2 /\ i2' = r.i2 /\ d2' = r.d2
           /\ initmask' = r.initmask /\ initmask2' = r.initmask2
           /\ truthwin' = r.truthwin /\ targetwin' = r.targetwin
           /\ qualitieswin' = r.qualitieswin
           /\ gap_open_win' = r.gap_open_win /\ gap_extend_win' = r.gap_extend_win
           /\ truthnqual' = r.truthnqual
    /\ backpointers' = [k \in 0..(2 * (truth_len + band_size) - 1) |-> vectorise(band_size, 0)]
    /\ minscore' = infinity
    /\ minscoreidx' = -1
    /\ s' = 0
    /\ pc' = "align_loop"
    /\ UNCHANGED <<inputs, walk, outs, score_result, align_result>>

(* A faulty Backpointer: the D field packed 4 bits up instead of 6.        *)
BackpointerOverlapping(m, ii, d) ==
    _or(_or(_and(_three(band_size), m),
            _left_shift_words(2 * insert_label, _and(_three(band_size), ii))),
        _left_shift_words(2 * insert_label + 2, _and(_three(band_size), d)))
Backpointer(m, ii, d) ==
    _or(_or(_and(_three(band_size), m),
            _left_shift_words(2 * insert_label, _and(_three(band_size), ii))),
        _left_shift_words(2 * delete_label, _and(_three(band_size), d)))

(* The "set state labels" lines 210-212 and 240-242.                       *)
LabelM(m) == _andnot(_three(band_size), m)
LabelI(ii) == _or(_andnot(_three(band_size), ii), _right_shift(1, _three(band_size)))
LabelD(d) == _or(_andnot(_three(band_size), d), _three(band_size))

(* A faulty AlignLoop: an exit value equal to the running minimum replaces *)
(* it, so the latest half step wins.                                       *)
AlignLoopLatestWins ==
    /\ pc = "align_loop"
    /\ s <= 2 * (target_len + band_size)
    /\ LET tw   == NextTargetwin
           qw   == NextQualitieswin
           m1a  == _or(initmask2, _andnot(initmask, m1))
           m2a  == _or(initmask2, _andnot(initmask, m2))
           m1b  == _min(m1a, _min(i1, d1))
           cur1 == S16(_extract(m1b, s \div 2 - target_len))
           upd1 == s \div 2 >= target_len /\ cur1 <= minscore
           min1 == IF upd1 THEN cur1 ELSE minscore
           idx1 == IF upd1 THEN s ELSE minscoreidx
           m1c  == _add(m1b, Emission(tw, qw, truthwin, truthnqual))
           d1a  == _min(_add(d2, gap_extend_win),
                        _add(_min(m2a, i2), _right_shift(score_bytes, gap_open_win)))
           d1b  == _insert(_left_shift(score_bytes, d1a), infinity, 0)
           i1a  == _add(_min(_add(i2, gap_extend_win), _add(m2a, gap_open_win)), _nuc_prior)
           bp1  == Backpointer(m1c, i1a, d1b)
           m1d  == LabelM(m1c)
           i1b  == LabelI(i1a)
           d1c  == LabelD(d1b)
           trw  == NextTruthwin
           tnq  == NextTruthnqual
           gow  == update_gap_penalty(trace_bits, gap_open_win, gap_open, GapIdx)
           gew  == update_gap_penalty(trace_bits, gap_extend_win, gap_extend, GapIdx)
           m2b  == _min(m2a, _min(i2, d2))
           cur2 == S16(_extract(m2b, s \div 2 - target_len))
           upd2 == s \div 2 >= target_len /\ cur2 <= min1
           min2 == IF upd2 THEN cur2 ELSE min1
           idx2 == IF upd2 THEN s + 1 ELSE idx1
           m2c  == _add(m2b, Emission(tw, qw, trw, tnq))
           d2a  == _min(_add(d1c, gew), _add(_min(m1d, i1b), gow))
           i2a  == _insert(_add(_min(_add(_right_shift(score_bytes, i1b), gew),
                                     _add(_right_shift(score_bytes, m1d), gow)),
                                _nuc_prior),
                           infinity, band_size - 1)
           bp2  == Backpointer(m2c, i2a, d2a)
       IN  /\ targetwin' = tw
           /\ qualitieswin' = qw
           /\ m1' = m1d
           /\ i1' = i1b
           /\ d1' = d1c
           /\ truthwin' = trw
           /\ truthnqual' = tnq
           /\ gap_open_win' = gow
           /\ gap_extend_win' = gew
           /\ initmask' = _left_shift(score_bytes, initmask)
           /\ initmask2' = _left_shift(score_bytes, initmask2)
           /\ minscore' = min2
           /\ minscoreidx' = idx2
           /\ m2' = LabelM(m2c)
           /\ i2' = LabelI(i2a)
           /\ d2' = LabelD(d2a)
           /\ backpointers' = [backpointers EXCEPT ![s] = bp1, ![s + 1] = bp2]
    /\ s' = s + 2
    /\ UNCHANGED <<inputs, pc, walk, outs, score_result, align_result>>

(* One iteration of the main loop of the overload with alignment, lines    *)
(* 181-243.                                                                 *)
AlignLoop ==
    /\ pc = "align_loop"
    /\ s <= 2 * (target_len + band_size)
    /\ LET tw   == NextTargetwin
           qw   == NextQualitieswin
           m1a  == _or(initmask2, _andnot(initmask, m1))
           m2a  == _or(initmask2, _andnot(initmask, m2))
           m1b  == _min(m1a, _min(i1, d1))
           cur1 == S16(_extract(m1b, s \div 2 - target_len))
           upd1 == s \div 2 >= target_len /\ cur1 < minscore
           min1 == IF upd1 THEN cur1 ELSE minscore
           idx1 == IF upd1 THEN s ELSE minscoreidx
           m1c  == _add(m1b, Emission(tw, qw, truthwin, truthnqual))
           d1a  == _min(_add(d2, gap_extend_win),
                        _add(_min(m2a, i2), _right_shift(score_bytes, gap_open_win)))
           d1b  == _insert(_left_shift(score_bytes, d1a), infinity, 0)
           i1a  == _add(_min(_add(i2, gap_extend_win), _add(m2a, gap_open_win)), _nuc_prior)
           bp1  == Backpointer(m1c, i1a, d1b)
           m1d  == LabelM(m1c)
           i1b  == LabelI(i1a)
           d1c  == LabelD(d1b)
           trw  == NextTruthwin
           tnq  == NextTruthnqual
           gow  == update_gap_penalty(trace_bits, gap_open_win, gap_open, GapIdx)
           gew  == update_gap_penalty(trace_bits, gap_extend_win, gap_extend, GapIdx)
           m2b  == _min(m2a, _min(i2, d2))
           cur2 == S16(_extract(m2b, s \div 2 - target_len))
           upd2 == s \div 2 >= target_len /\ cur2 < min1
           min2 == IF upd2 THEN cur2 ELSE min1
           idx2 == IF upd2 THEN s + 1 ELSE idx1
           m2c  == _add(m2b, Emission(tw, qw, trw, tnq))
           d2a  == _min(_add(d1c, gew), _add(_min(m1d, i1b), gow))
           i2a  == _insert(_add(_min(_add(_right_shift(score_bytes, i1b), gew),
                                     _add(_right_shift(score_bytes, m1d), gow)),
                                _nuc_prior),
                           infinity, band_size - 1)
           bp2  == Backpointer(m2c, i2a, d2a)
       IN  /\ targetwin' = tw
           /\ qualitieswin' = qw
           /\ m1' = m1d
           /\ i1' = i1b
           /\ d1' = d1c
           /\ truthwin' = trw
           /\ truthnqual' = tnq
           /\ gap_open_win' = gow
           /\ gap_extend_win' = gew
           /\ initmask' = _left_shift(score_bytes, initmask)
           /\ initmask2' = _left_shift(score_bytes, initmask2)
           /\ minscore' = min2
           /\ minscoreidx' = idx2
           /\ m2' = LabelM(m2c)
           /\ i2' = LabelI(i2a)
           /\ d2' = LabelD(d2a)
           /\ backpointers' = [backpointers EXCEPT ![s] = bp1, ![s + 1] = bp2]
    /\ s' = s + 2
    /\ UNCHANGED <<inputs, pc, walk, outs, score_result, align_result>>

(* What a read outside the back-pointer buffer can deliver.                *)
OutOfBoundsWords == {0, 1, 3}

(* The back-pointer buffer read as an array of shorts, as                  *)
(* reinterpret_cast<short*>(_backpointers.data() + s)[i] does.             *)
(* A faulty BpSize: the buffer sized by the read instead of the truth.      *)
BpSizeOfTarget == 2 * (target_len + band_size)
BpSize == 2 * (truth_len + band_size)
BpFlat(ss, ii) == ss * band_size + ii
BpInRange(ss, ii) == BpFlat(ss, ii) >= 0 /\ BpFlat(ss, ii) < BpSize * band_size
BpShort(ss, ii) == backpointers[BpFlat(ss, ii) \div band_size][BpFlat(ss, ii) % band_size]
(* A faulty Tag: the field of state st taken st bits up instead of 2 * st. *)
TagNarrowField(word, st) == Shr(word, st) % 4
Tag(word, st) == Shr(word, 2 * st) % 4

(* Lines 244-248: the running minimum was never updated.                   *)
NoMinimum ==
    /\ pc = "align_loop"
    /\ s > 2 * (target_len + band_size)
    /\ minscoreidx < 0
    /\ first_pos' = -1
    /\ align_result' = -1
    /\ pc' = "align_done"
    /\ UNCHANGED <<inputs, s, minscore, minscoreidx, regs, backpointers, walk,
                   align1, align2, score_result>>

(* Lines 249-261: the walk is seeded at the half step of the minimum.      *)
Seed ==
    /\ pc = "align_loop"
    /\ s > 2 * (target_len + band_size)
    /\ minscoreidx >= 0
    /\ LET ii == minscoreidx \div 2 - target_len
       IN  /\ i' = ii
           /\ y' = target_len
           /\ x' = minscoreidx - target_len
           /\ alnidx' = 0
           /\ IF ~BpInRange(minscoreidx, ii)
              THEN /\ first_pos' = -1
                   /\ align_result' = -1
                   /\ pc' = "align_done"
                   /\ UNCHANGED <<s, state>>
              ELSE /\ state' = Tag(BpShort(minscoreidx, ii), match_label)
                   /\ s' = minscoreidx - 2
                   /\ pc' = "walk"
                   /\ UNCHANGED <<first_pos, align_result>>
    /\ UNCHANGED <<inputs, minscore, minscoreidx, regs, backpointers,
                   align1, align2, score_result>>

(* Lines 264-268: the walk left the buffer.                                *)
WalkFail ==
    /\ pc = "walk"
    /\ y > 0
    /\ (s < 0 \/ i < 0)
    /\ first_pos' = -1
    /\ align_result' = -1
    /\ pc' = "align_done"
    /\ UNCHANGED <<inputs, s, minscore, minscoreidx, regs, backpointers, walk,
                   align1, align2, score_result>>

(* Lines 269-286: one column of the walk.  What the column emits (a truth *)
(* base or a gap, a target base or a gap) and where the walk goes next.    *)
(* A faulty WalkMove: a deleted truth base does not move the truth cursor. *)
WalkMoveKeepingTruth(st, ss, ii, xx, yy) ==
    IF st = match_label
    THEN [s |-> ss - 2, i |-> ii, x |-> xx - 1, y |-> yy - 1, gap1 |-> FALSE, gap2 |-> FALSE]
    ELSE IF st = insert_label
    THEN [s |-> ss - 1, i |-> ii + (ss % 2), x |-> xx, y |-> yy - 1,
          gap1 |-> TRUE, gap2 |-> FALSE]
    ELSE [s |-> ss - 1, i |-> ii - ((ss - 1) % 2), x |-> xx, y |-> yy,
          gap1 |-> FALSE, gap2 |-> TRUE]
(* A faulty WalkMove: an aligned pair of bases does not move the half step. *)
WalkMoveStalling(st, ss, ii, xx, yy) ==
    IF st = match_label
    THEN [s |-> ss, i |-> ii, x |-> xx - 1, y |-> yy - 1, gap1 |-> FALSE, gap2 |-> FALSE]
    ELSE IF st = insert_label
    THEN [s |-> ss - 1, i |-> ii + (ss % 2), x |-> xx, y |-> yy - 1,
          gap1 |-> TRUE, gap2 |-> FALSE]
    ELSE [s |-> ss - 1, i |-> ii - ((ss - 1) % 2), x |-> xx - 1, y |-> yy,
          gap1 |-> FALSE, gap2 |-> TRUE]
(* A faulty WalkMove: a deleted truth base does not move the lane.         *)
WalkMoveKeepingLane(st, ss, ii, xx, yy) ==
    IF st = match_label
    THEN [s |-> ss - 2, i |-> ii, x |-> xx - 1, y |-> yy - 1, gap1 |-> FALSE, gap2 |-> FALSE]
    ELSE IF st = insert_label
    THEN [s |-> ss - 1, i |-> ii + (ss % 2), x |-> xx, y |-> yy - 1,
          gap1 |-> TRUE, gap2 |-> FALSE]
    ELSE [s |-> ss - 1, i |-> ii, x |-> xx - 1, y |-> yy,
          gap1 |-> FALSE, gap2 |-> TRUE]
(* A faulty WalkMove: a deleted truth base does not move the half step.    *)
WalkMoveKeepingStep(st, ss, ii, xx, yy) ==
    IF st = match_label
    THEN [s |-> ss - 2, i |-> ii, x |-> xx - 1, y |-> yy - 1, gap1 |-> FALSE, gap2 |-> FALSE]
    ELSE IF st = insert_label
    THEN [s |-> ss - 1, i |-> ii + (ss % 2), x |-> xx, y |-> yy - 1,
          gap1 |-> TRUE, gap2 |-> FALSE]
    ELSE [s |-> ss, i |-> ii, x |-> xx - 1, y |-> yy,
          gap1 |-> FALSE, gap2 |-> TRUE]
WalkMove(st, ss, ii, xx, yy) ==
    IF st = match_label
    THEN [s |-> ss - 2, i |-> ii, x |-> xx - 1, y |-> yy - 1, gap1 |-> FALSE, gap2 |-> FALSE]
    ELSE IF st = insert_label
    THEN [s |-> ss - 1, i |-> ii + (ss % 2), x |-> xx, y |-> yy - 1,
          gap1 |-> TRUE, gap2 |-> FALSE]
    ELSE [s |-> ss - 1, i |-> ii - ((ss - 1) % 2), x |-> xx - 1, y |-> yy,
          gap1 |-> FALSE, gap2 |-> TRUE]

(* What a read of truth[k] delivers; outside the array it is any byte.     *)
OutOfBoundsBytes == {0, chA}
TruthRead(k) == IF k >= 0 /\ k < Len(truth) THEN {At(truth, k)} ELSE OutOfBoundsBytes
BpRead(ss, ii) == IF BpInRange(ss, ii) THEN {BpShort(ss, ii)} ELSE OutOfBoundsWords

WalkStep ==
    /\ pc = "walk"
    /\ y > 0
    /\ ~(s < 0 \/ i < 0)
    /\ \E word \in BpRead(s, i) : state' = Tag(word, state)
    /\ LET mv == WalkMove(state, s, i, x, y)
       IN  /\ s' = mv.s
           /\ i' = mv.i
           /\ x' = mv.x
           /\ y' = mv.y
           /\ \E c \in (IF mv.gap1 THEN {gap_label} ELSE TruthRead(mv.x)) :
                 align1' = [align1 EXCEPT ![alnidx] = c]
           /\ align2' = [align2 EXCEPT ![alnidx] =
                                 IF mv.gap2 THEN gap_label ELSE At(target, mv.y)]
    /\ alnidx' = alnidx + 1
    /\ UNCHANGED <<inputs, pc, minscore, minscoreidx, regs, backpointers, first_pos,
                   score_result, align_result>>

(* Lines 288-300: terminate, reverse in place, return the score.           *)
Reversed(a, n) == [k \in DOMAIN a |-> IF k < n THEN a[n - 1 - k] ELSE a[k]]
WalkReturn ==
    /\ pc = "walk"
    /\ y = 0
    /\ align1' = Reversed([align1 EXCEPT ![alnidx] = 0], alnidx)
    /\ align2' = Reversed([align2 EXCEPT ![alnidx] = 0], alnidx)
    /\ first_pos' = x
    /\ x' = IF alnidx >= 2 THEN align1[alnidx \div 2 - 1] ELSE x
    /\ y' = IF alnidx >= 2 THEN align2[alnidx \div 2 - 1] ELSE y
    /\ align_result' = Returned(minscore)
    /\ pc' = "align_done"
    /\ UNCHANGED <<inputs, s, minscore, minscoreidx, regs, backpointers, i, alnidx,
                   state, score_result>>
----------------------------------------------------------------------------
(* The calls of the unit test sse2_check_alignments (band of 8 lanes).     *)
Rep(n, v) == [k \in 1..n |-> v]
Ptr(seq) == [ptr |-> TRUE, val |-> seq]
Scalar(n) == [ptr |-> FALSE, val |-> n]
Call(B, tr, tg, q, go, ge, np) ==
    [band_size |-> B, truth |-> tr, target |-> tg, qualities |-> q,
     gap_open |-> go, gap_extend |-> ge, nuc_prior |-> np,
     truth_len |-> Len(tr), target_len |-> Len(tg)]

sse2_band_size == 8
AAAA == <<chA, chA, chA, chA>>
CGGC == <<chC, chG, chG, chC>>
ACGT == <<chA, chC, chG, chT>>
Test1 == Call(sse2_band_size, ACGT \o ACGT \o ACGT \o <<chA, chC, chG>> \o AAAA, AAAA,
              Rep(4, 40), Ptr(Rep(19, 10)), Scalar(1), 4)
Test2 == Call(sse2_band_size,
              ACGT \o ACGT \o ACGT \o <<chA, chC, chG>> \o <<chA, chA, chT, chA>>, AAAA,
              Rep(4, 40), Ptr(Rep(19, 90)), Scalar(1), 4)
Test3 == Call(sse2_band_size,
              ACGT \o <<chA, chC, chG, chA, chA, chG, chC, chT>> \o ACGT \o <<chA, chC, chG>>,
              CGGC, Rep(4, 40), Ptr([Rep(19, 90) EXCEPT ![8] = 70]), Scalar(1), 4)
Test4 == Call(sse2_band_size,
              <<chC, chG, chA, chA, chG, chC>> \o ACGT \o ACGT \o ACGT \o <<chA>>,
              CGGC, Rep(4, 40), Ptr([Rep(19, 90) EXCEPT ![3] = 70]), Scalar(1), 4)
Test5 == Call(sse2_band_size,
              <<chC, chC, chC, chC>> \o ACGT
                \o <<chA, chT, chA, chT, chA, chT, chA, chT, chA, chT, chA, chT, chA, chT>>
                \o <<chG, chG, chG, chG>> \o ACGT,
              <<chC, chC, chC, chC>> \o ACGT \o <<chG, chG, chG>> \o ACGT,
              Rep(15, 40), Ptr([Rep(30, 90) EXCEPT ![9] = 70]), Scalar(1), 4)
TestCalls == {Test1, Test2, Test3, Test4, Test5}

(* A policy whose VectorType holds two scores: the same code on the        *)
(* narrowest band.  Every call on short sequences over two bases.          *)
narrow_band_size == 2
MaxTargetLen == 2
Bases == {chA, chC}
SeqsOver(alphabet, n) == [1..n -> alphabet]
ShapeLen(B, n) == n + 2 * B - 1
Penalties ==
    {[q |-> 40, go |-> 10, ge |-> 1, np |-> 4],
     [q |-> 40, go |-> 90, ge |-> 1, np |-> 4],
     [q |-> 40, go |-> 3, ge |-> 2, np |-> 0]}
SeqPairs ==
    UNION {{tr \in SeqsOver(Bases, ShapeLen(narrow_band_size, n)) : tr[1] = chA}
             \X SeqsOver(Bases, n) : n \in 1..MaxTargetLen}
UniformCalls ==
    {Call(narrow_band_size, sp[1], sp[2], Rep(Len(sp[2]), p.q),
          Scalar(p.go), Scalar(p.ge), p.np) : <<sp, p>> \in SeqPairs \X Penalties}

(* The same sequences with a penalty that depends on the truth position:  *)
(* one position of gap_open discounted, or one of gap_extend raised.       *)
PositionalCalls ==
    UNION {{Call(narrow_band_size, sp[1], sp[2], Rep(Len(sp[2]), 40),
                 Ptr([Rep(Len(sp[1]), 20) EXCEPT ![p] = 3]), Scalar(1), 4),
            Call(narrow_band_size, sp[1], sp[2], Rep(Len(sp[2]), 40),
                 Ptr(Rep(Len(sp[1]), 3)), Ptr([Rep(Len(sp[1]), 1) EXCEPT ![p] = 6]), 4)} :
             <<sp, p>> \in {<<sq, pp>> \in SeqPairs
                                           \X (1..ShapeLen(narrow_band_size, MaxTargetLen)) :
                               pp <= Len(sq[1])}}

(* Calls where an inserted target base is the cheapest explanation: a     *)
(* read of C against a truth of A, and a read whose first base is extra.  *)
InsertionCalls ==
    {Call(sse2_band_size, Rep(19, chA), Rep(4, chC), Rep(4, 40), Ptr(Rep(19, 10)), Scalar(1), 4),
     Call(sse2_band_size, <<chG, chG, chA, chC>> \o Rep(14, chG), <<chT, chA, chC>>,
          Rep(3, 40), Ptr(Rep(18, 10)), Scalar(1), 4),
     Call(narrow_band_size, <<chG, chG, chA, chC, chG, chG>>, <<chT, chA, chC>>,
          Rep(3, 40), Scalar(10), Scalar(1), 4)}

(* Calls whose penalties are the largest a signed char holds, on reads     *)
(* long enough for the scores to reach infinity.                           *)
SaturatingCalls ==
    {Call(narrow_band_size, Rep(ShapeLen(narrow_band_size, n), chA), Rep(n, chC),
          Rep(n, 127), Scalar(127), Scalar(127), 127) : n \in 125..127}

(* A call on the band of 8 lanes with penalties at the top of the range of *)
(* a signed char: a deletion of two bases, opened where gap_open dips, and *)
(* a read of two bases that match nothing in the truth.                    *)
SteepCalls ==
    {Call(sse2_band_size,
          <<chC, chG, chA, chA, chG, chC>> \o <<chT, chA, chT, chA, chT, chA, chT>>
             \o <<chA, chT, chA, chT, chA, chT>>,
          CGGC, Rep(4, 127), Ptr([Rep(19, 127) EXCEPT ![3] = 100]), Scalar(127), 4),
     Call(sse2_band_size, Rep(ShapeLen(sse2_band_size, 2), chA), Rep(2, chC),
          Rep(2, 127), Scalar(127), Scalar(127), 0)}

(* Calls that break the shape truth_len = target_len + 2 * band_size - 1.   *)
ShapeCalls ==
    {Call(narrow_band_size, Rep(4, chA), Rep(2, chA), Rep(2, 40), Scalar(10), Scalar(1), 4),
     Call(narrow_band_size, Rep(6, chA), Rep(2, chA), Rep(2, 40), Scalar(10), Scalar(1), 4),
     Call(sse2_band_size, Rep(18, chA), Rep(4, chA), Rep(4, 40), Ptr(Rep(18, 10)),
          Scalar(1), 4)}

(* Calls with the ambiguous base N in truth, in target or in both, read    *)
(* with a base quality below and above n_score.                            *)
AmbiguousCalls ==
    {Call(narrow_band_size, tr, tg, <<q>>, Scalar(10), Scalar(1), 4) :
        <<tr, tg, q>> \in SeqsOver({chA, chN}, ShapeLen(narrow_band_size, 1))
                            \X SeqsOver({chA, chC, chN}, 1) \X {1, 40}}

(* Calls where the read GGCTT has a C for the A of the truth TGGATT..., and *)
(* inserting the C and then deleting the A (3 + 3) is cheaper than the     *)
(* mismatch (40) and than any other pair of gaps.                          *)
GGCTT == <<chG, chG, chC, chT, chT>>
ReplacedBaseCalls ==
    {Call(B, <<chT, chG, chG, chA>> \o Rep(ShapeLen(B, 5) - 4, chT), GGCTT,
          Rep(5, 40), Scalar(3), Scalar(3), 0) : B \in {narrow_band_size, sse2_band_size}}

Calls ==
    TestCalls \cup UniformCalls \cup PositionalCalls \cup InsertionCalls
        \cup SteepCalls \cup SaturatingCalls \cup ShapeCalls \cup AmbiguousCalls
        \cup ReplacedBaseCalls

(* The state on entry to the score-only overload.  A call that meets the   *)
(* assert runs the same in either build, so it starts in one of them.      *)
Enter(c) ==
    /\ band_size = c.band_size
    /\ ndebug \in (IF c.truth_len > c.band_size
                      /\ c.truth_len = c.target_len + 2 * c.band_size - 1
                   THEN {TRUE} ELSE BOOLEAN)
    /\ truth = c.truth /\ target = c.target /\ qualities = c.qualities
    /\ gap_open = c.gap_open /\ gap_extend = c.gap_extend
    /\ nuc_prior = c.nuc_prior
    /\ truth_len = c.truth_len /\ target_len = c.target_len
    /\ pc = "score_loop"
    /\ s = 0
    /\ minscore = infinity
    /\ minscoreidx = -1
    /\ LET r == EnterRegs(c.band_size, c.truth, c.gap_open, c.gap_extend)
       IN  /\ m1 = r.m1 /\ i1 = r.i1 /\ d1 = r.d1
           /\ m2 = r.m2 /\ i2 = r.i2 /\ d2 = r.d2
           /\ initmask = r.initmask /\ initmask2 = r.initmask2
           /\ truthwin = r.truthwin /\ targetwin = r.targetwin
           /\ qualitieswin = r.qualitieswin
           /\ gap_open_win = r.gap_open_win /\ gap_extend_win = r.gap_extend_win
           /\ truthnqual = r.truthnqual
    /\ backpointers = <<>>
    /\ i = 0 /\ x = 0 /\ y = 0 /\ alnidx = 0 /\ state = 0
    /\ align1 = [k \in 0..(2 * c.truth_len) |-> 0]
    /\ align2 = [k \in 0..(2 * c.truth_len) |-> 0]
    /\ first_pos = 0
    /\ score_result = -1
    /\ align_result = -1

Init == \E c \in Calls : Enter(c)

Next ==
    \/ AssertFail
    \/ ScoreLoop
    \/ ScoreReturn
    \/ AlignEnter
    \/ AlignLoop
    \/ NoMinimum
    \/ Seed
    \/ WalkFail
    \/ WalkStep
    \/ WalkReturn

Spec == Init /\ [][Next]_vars
----------------------------------------------------------------------------
(* The cost model the contract is stated in: the cheapest alignment of the *)
(* whole of target against truth that starts after xx in 0..2B-1 truth     *)
(* bases, ends after any number, and stays in the band 0 <= x - y <= 2B-1. *)
(* A cell holds, for each of the states M, I and D, the least cost of       *)
(* reaching it and whether one or several alignments reach it at that cost. *)
CostInf == 255 * Word
NoPath == <<CostInf, 0>>
NoCell == <<NoPath, NoPath, NoPath>>
PenaltyAt(g, k) ==
    IF g.ptr THEN (IF k >= 0 /\ k < Len(g.val) THEN At(g.val, k) ELSE CostInf) ELSE g.val
Plus(p, k) == IF p[1] + k >= CostInf THEN NoPath ELSE <<p[1] + k, p[2]>>
Best2(a, b) ==
    IF a[1] < b[1] THEN a
    ELSE IF b[1] < a[1] THEN b
    ELSE IF a[1] >= CostInf THEN NoPath
    ELSE <<a[1], MinInt(2, a[2] + b[2])>>
Best3(a, b, c) == Best2(a, Best2(b, c))
InBand(xx, yy) == xx - yy >= 0 /\ xx - yy <= 2 * band_size - 1 /\ xx <= truth_len
Substitution(xx, yy) == IF At(truth, xx) = At(target, yy) THEN 0 ELSE At(qualities, yy)

RECURSIVE CostRow(_, _, _, _)
CostRow(prev, yy, xx, left) ==
    IF xx > truth_len THEN <<>>
    ELSE LET cell ==
                 IF ~InBand(xx, yy) THEN NoCell
                 ELSE IF yy = 0 THEN <<(<<0, 1>>), NoPath,
                                       IF xx = 0 THEN NoPath
                                       ELSE Best2(Plus(left[3], PenaltyAt(gap_extend, xx - 1)),
                                                  Plus(left[1], PenaltyAt(gap_open, xx - 1)))>>
                 ELSE LET diag == prev[xx]
                          up == prev[xx + 1]
                      IN  <<Plus(Best3(diag[1], diag[2], diag[3]),
                                 Substitution(xx - 1, yy - 1)),
                            Plus(Best2(Plus(up[2], PenaltyAt(gap_extend, xx - 1)),
                                       Plus(Best2(up[1], up[3]), PenaltyAt(gap_open, xx - 1))),
                                 nuc_prior),
                            Best2(Plus(left[3], PenaltyAt(gap_extend, xx - 1)),
                                  Plus(Best2(left[1], left[2]), PenaltyAt(gap_open, xx - 1)))>>
         IN  <<cell>> \o CostRow(prev, yy, xx + 1, cell)

RECURSIVE CostRows(_, _)
CostRows(prev, yy) ==
    IF yy > target_len THEN prev
    ELSE CostRows(CostRow(prev, yy, 0, NoCell), yy + 1)

RECURSIVE BestOfRow(_, _)
BestOfRow(row, k) ==
    IF k > Len(row) THEN NoPath
    ELSE Best2(Best3(row[k][1], row[k][2], row[k][3]), BestOfRow(row, k + 1))

Optimum == BestOfRow(CostRows(<<>>, 0), 1)
MinCost == Optimum[1]

(* The penalties are too small for any score to reach infinity: the        *)
(* dearest alignment costs less than the largest score a lane holds.       *)
MaxOf(seq) == CHOOSE v \in {seq[k] : k \in DOMAIN seq} : \A k \in DOMAIN seq : seq[k] <= v
MaxPenalty(g) == IF g.ptr THEN MaxOf(g.val) ELSE g.val
NoSaturation ==
    (truth_len + target_len)
        * (MaxOf(qualities) + MaxPenalty(gap_open) + MaxPenalty(gap_extend) + nuc_prior)
      < Returned(infinity)
----------------------------------------------------------------------------
(* C1: on a call that meets the shape, with penalties too small to         *)
(* saturate, the score-only overload returns the least cost of an in-band  *)
(* alignment.                                                              *)
C1_ScoreIsMinCost ==
    (pc = "score_done" /\ AssertHolds /\ NoSaturation) => score_result = MinCost

(* C2: on a call that meets the shape, with penalties too small to         *)
(* saturate, the overload that recovers the alignment returns the score    *)
(* the score-only overload returned.                                       *)
C2_AlignScoreIsScoreOnly ==
    (pc = "align_done" /\ AssertHolds /\ NoSaturation) => align_result = score_result

(* The alignment buffers read as C strings.                                *)
StrLen(a) ==
    LET ends == {k \in DOMAIN a : a[k] = 0}
    IN  IF ends = {} THEN Cardinality(DOMAIN a) ELSE CHOOSE k \in ends : \A j \in ends : k <= j
NonGaps(a) == {k \in 0..(StrLen(a) - 1) : a[k] # gap_label}
Strip(a) ==
    LET kept == NonGaps(a)
    IN  [j \in 1..Cardinality(kept) |->
            a[CHOOSE k \in kept : Cardinality({m \in kept : m < k}) = j - 1]]
Gaps(a) == Cardinality({k \in 0..(StrLen(a) - 1) : a[k] = gap_label})
Window(seq, from, n) == [k \in 1..n |-> seq[from + k]]

(* C3: a score other than -1 comes with two strings of one length, no      *)
(* column of two gaps, the whole of target in align2, and in align1 the    *)
(* truth from first_pos on.                                                *)
C3_AlignmentConsistent ==
    (pc = "align_done" /\ align_result # -1) =>
        /\ StrLen(align1) = StrLen(align2)
        /\ \A k \in 0..(StrLen(align1) - 1) : ~(align1[k] = gap_label /\ align2[k] = gap_label)
        /\ Strip(align2) = target
        /\ first_pos >= 0
        /\ first_pos + Len(Strip(align1)) <= truth_len
        /\ Strip(align1) = Window(truth, first_pos, Len(Strip(align1)))

(* C4: when target occurs verbatim in truth at an offset of 0..2B-1 and     *)
(* the qualities and gap penalties are uniform and positive, both          *)
(* overloads return 0 and the alignment is target against itself, at an    *)
(* offset where it occurs.                                                 *)
Str(a) == [k \in 1..StrLen(a) |-> a[k - 1]]
Occurs(o) ==
    /\ o >= 0 /\ o <= 2 * band_size - 1
    /\ o + target_len <= truth_len
    /\ Window(truth, o, target_len) = target
UniformPositive(g) ==
    IF g.ptr THEN \A k \in DOMAIN g.val : g.val[k] = g.val[1] /\ g.val[k] > 0 ELSE g.val > 0
VerbatimCall ==
    /\ AssertHolds
    /\ \E o \in 0..(2 * band_size - 1) : Occurs(o)
    /\ \A k \in DOMAIN qualities : qualities[k] = qualities[1] /\ qualities[k] > 0
    /\ UniformPositive(gap_open) /\ UniformPositive(gap_extend)
C4_VerbatimScoresZero ==
    VerbatimCall =>
        /\ pc = "score_done" => score_result = 0
        /\ pc = "align_done" =>
              /\ align_result = 0
              /\ Str(align1) = target /\ Str(align2) = target
              /\ Occurs(first_pos)
C4_Witness ==
    /\ pc = "align_done" /\ VerbatimCall /\ band_size = sse2_band_size
    /\ score_result = 0 /\ first_pos > 0

(* C5: when target is a window of truth starting at a with the L bases     *)
(* from p on removed, and that deletion is the one cheapest alignment,     *)
(* both overloads return gO[p] + (L-1)*gE (gE a scalar), first_pos is a,   *)
(* align1 is the window and align2 is target with L gaps where the bases   *)
(* were removed; L runs up to 2B-1.                                        *)
IsDeletion(a, p, L) ==
    /\ a + L <= 2 * band_size - 1
    /\ p > a /\ p + L < a + target_len + L
    /\ a + target_len + L <= truth_len
    /\ target = Window(truth, a, p - a) \o Window(truth, p + L, a + target_len - p)
DeletionCost(p, L) == PenaltyAt(gap_open, p) + (L - 1) * gap_extend.val
CheapestIsDeletion(a, p, L) ==
    /\ AssertHolds /\ NoSaturation /\ ~gap_extend.ptr
    /\ IsDeletion(a, p, L)
    /\ Optimum = <<DeletionCost(p, L), 1>>
DeletionRecovered(a, p, L) ==
    /\ align_result = DeletionCost(p, L)
    /\ score_result = DeletionCost(p, L)
    /\ first_pos = a
    /\ Str(align1) = Window(truth, a, target_len + L)
    /\ Str(align2) = Window(truth, a, p - a) \o Rep(L, gap_label)
                        \o Window(truth, p + L, a + target_len - p)
C5_DeletionRun ==
    pc = "align_done" =>
        \A a \in 0..(2 * band_size - 2) : \A L \in 1..(2 * band_size - 1 - a) :
            \A p \in (a + 1)..(a + target_len - 1) :
                CheapestIsDeletion(a, p, L) => DeletionRecovered(a, p, L)

(* C6: the five scenarios of the unit test, on the band of 8 lanes.        *)
IsCall(c) ==
    /\ band_size = c.band_size
    /\ truth = c.truth /\ target = c.target /\ qualities = c.qualities
    /\ gap_open = c.gap_open /\ gap_extend = c.gap_extend /\ nuc_prior = c.nuc_prior
Gives(c, score, pos, a1, a2) ==
    IsCall(c) =>
        /\ pc = "score_done" => score_result = score
        /\ pc = "align_done" =>
              /\ score_result = score /\ align_result = score
              /\ first_pos = pos
              /\ Str(align1) = a1 /\ Str(align2) = a2
CGAAGC == <<chC, chG, chA, chA, chG, chC>>
C6_Scenarios ==
    /\ Gives(Test1, 0, 15, AAAA, AAAA)
    /\ Gives(Test2, 40, 15, <<chA, chA, chT, chA>>, AAAA)
    /\ Gives(Test3, 71, 5, CGAAGC, <<chC, chG>> \o Rep(2, gap_label) \o <<chG, chC>>)
    /\ Gives(Test4, 71, 0, CGAAGC, <<chC, chG>> \o Rep(2, gap_label) \o <<chG, chC>>)
    /\ Gives(Test5, 84, 0, Test5.truth,
             <<chC, chC, chC, chC>> \o ACGT \o Rep(15, gap_label)
                \o <<chG, chG, chG>> \o ACGT)
C6_Witness == IsCall(Test4) /\ pc = "align_done" /\ align_result = 71 /\ first_pos = 0

Drift == first_pos + Gaps(align2) - Gaps(align1)
C8_FailureTerminatesBuffers ==
    (pc = "align_done" /\ align_result = -1) =>
        first_pos = -1 /\ align1[0] = 0 /\ align2[0] = 0

(* C9: when no exit value ever fell below infinity, the score-only         *)
(* overload returns (0x7800 + 0x8000) >> 2 and the other overload returns  *)
(* -1 with first_pos -1.                                                   *)
C9_NoMinimumSaturates ==
    /\ (pc = "score_done" /\ minscore = infinity) => score_result = 15872
    /\ (pc = "align_done" /\ minscoreidx < 0) => align_result = -1 /\ first_pos = -1
C9_Witness ==
    /\ pc = "align_done" /\ minscoreidx < 0
    /\ score_result = 15872 /\ align_result = -1

(* C10: a call that breaks the shape fails before the first iteration of   *)
(* the main loop and returns no score.                                     *)
C10_ShapeViolationFails ==
    ~AssertHolds =>
        /\ pc \in {"score_loop", "aborted"}
        /\ s = 0 /\ score_result = -1 /\ align_result = -1

(* The emission the next iteration of either main loop adds to M1 and to   *)
(* M2 (lines 124 and 144, 203 and 234), and the cell lane k scores there:  *)
(* target base s/2 - k against the truth base in lane k of the window.     *)
InLoop == pc \in {"score_loop", "align_loop"} /\ s <= 2 * (target_len + band_size)
EvenEmission == Emission(NextTargetwin, NextQualitieswin, truthwin, truthnqual)
OddEmission == Emission(NextTargetwin, NextQualitieswin, NextTruthwin, NextTruthnqual)
TargetLaneReal(k) == s \div 2 - k >= 0 /\ s \div 2 - k < target_len
LaneBase(k) == At(target, s \div 2 - k)
LaneQuality(k) == At(qualities, s \div 2 - k)

(* C11: a truth base N scored against a target base adds n_score to the    *)
(* lane, whatever the target base and its quality.                         *)
C11_NChargesNScore ==
    InLoop =>
        \A k \in 0..(band_size - 1) :
            TargetLaneReal(k) =>
                /\ truthwin[k] = chN => EvenEmission[k] = n_score
                /\ NextTruthwin[k] = chN => OddEmission[k] = n_score

(* C11, as the code has it: n_score caps the quality, it does not replace  *)
(* it.  A truth base N against a target base other than N adds the lesser  *)
(* of quality << trace_bits and n_score, and against a target base N it    *)
(* adds nothing.                                                           *)
NCharge(k) ==
    IF LaneBase(k) = chN THEN 0 ELSE MinInt(Shl(LaneQuality(k), trace_bits), n_score)
C11_NChargesCappedQuality ==
    InLoop =>
        \A k \in 0..(band_size - 1) :
            TargetLaneReal(k) =>
                /\ truthwin[k] = chN => EvenEmission[k] = NCharge(k)
                /\ NextTruthwin[k] = chN => OddEmission[k] = NCharge(k)
C11_Witness ==
    /\ InLoop /\ s > 0
    /\ \E k \in 0..(band_size - 1) :
          /\ TargetLaneReal(k) /\ NextTruthwin[k] = chN
          /\ LaneBase(k) = chC /\ LaneQuality(k) = 1
          /\ OddEmission[k] = Shl(1, trace_bits)

LoopLeft == (pc \in {"score_loop", "align_loop"} /\ ~InLoop) \/ pc = "score_done"
HalfSteps == s

(* C13: either main loop makes 2 * (target_len + band_size) half steps and *)
(* stops.                                                                  *)
C13_HalfStepsTwiceLength == LoopLeft => HalfSteps = 2 * (target_len + band_size)

(* C13, as the code has it: the loop runs for s = 0, 2, ..., 2 * (|Q| + B) *)
(* inclusive, which is |Q| + B + 1 iterations and 2 * (|Q| + B) + 2 half   *)
(* steps; inside the loop s is even and within that range.                 *)
C13_HalfStepsInclusive ==
    /\ LoopLeft => HalfSteps = 2 * (target_len + band_size) + 2
    /\ InLoop => s % 2 = 0 /\ s >= 0
C13_Witness ==
    /\ pc = "align_loop" /\ ~InLoop /\ band_size = sse2_band_size
    /\ score_result # -1 /\ HalfSteps = 2 * (target_len + band_size) + 2

(* The back-pointer buffer: the vectors allocated, and those no iteration  *)
(* has written yet (the allocation leaves them zero and iteration s writes *)
(* the vectors s and s + 1).                                               *)
Allocated == Cardinality(DOMAIN backpointers)
Untouched(k) == backpointers[k] = vectorise(band_size, 0)
AlignIteration == pc = "align_loop" /\ pc' = "align_loop"

(* C14: half step h writes the vector h of the buffer, inside the buffer   *)
(* and for the first time, and the buffer holds as many vectors as half    *)
(* steps were made.                                                        *)
C14_BufferIsOnePerHalfStep ==
    (pc = "align_loop" /\ AssertHolds) =>
        /\ InLoop => s + 1 < BpSize
        /\ \A k \in DOMAIN backpointers : k >= s => Untouched(k)
        /\ ~InLoop => Allocated = HalfSteps

(* C14, as the code has it: the buffer is allocated with 2 * (|T| + B)     *)
(* vectors, and the 2 * (|Q| + B) + 2 half steps write the first that many *)
(* of them, half step h the vector h, each once; the last 4 * B - 4        *)
(* vectors are never written.                                              *)
C14_WritesInState ==
    (pc = "align_loop" /\ AssertHolds) =>
        /\ Allocated = BpSize
        /\ InLoop => s + 1 < BpSize
        /\ \A k \in DOMAIN backpointers : k >= s => Untouched(k)
        /\ ~InLoop => Allocated - HalfSteps = 4 * band_size - 4
C14_WritesInStep ==
    AlignIteration =>
        /\ s' = s + 2
        /\ DOMAIN backpointers' = DOMAIN backpointers
        /\ \A k \in DOMAIN backpointers :
              k \notin {s, s + 1} => backpointers'[k] = backpointers[k]
C14_FirstHalfStepsWritten == []C14_WritesInState /\ [][C14_WritesInStep]_vars
C14_Witness ==
    /\ pc = "align_loop" /\ ~InLoop /\ AssertHolds /\ band_size = sse2_band_size
    /\ \E k \in DOMAIN backpointers : k < s /\ ~Untouched(k)
    /\ Untouched(s)

(* The M, I and D of a half step as the back-pointer write finds them,     *)
(* before the labels are set.  The even half step (lines 194-206) works on *)
(* the state at the head of the iteration; the odd one (lines 224-236) on  *)
(* the labelled M1, I1, D1 and the gap windows the even one left.          *)
SeededM1 == _or(initmask2, _andnot(initmask, m1))
SeededM2 == _or(initmask2, _andnot(initmask, m2))
EvenM1 == _add(_min(SeededM1, _min(i1, d1)), EvenEmission)
EvenD1 ==
    _insert(_left_shift(score_bytes,
                        _min(_add(d2, gap_extend_win),
                             _add(_min(SeededM2, i2),
                                  _right_shift(score_bytes, gap_open_win)))),
            infinity, 0)
EvenI1 == _add(_min(_add(i2, gap_extend_win), _add(SeededM2, gap_open_win)), _nuc_prior)
OddM2 == _add(_min(SeededM2, _min(i2, d2)), OddEmission)
OddD2(m, ii, d, gow, gew) == _min(_add(d, gew), _add(_min(m, ii), gow))
OddI2(m, ii, d, gow, gew) ==
    _insert(_add(_min(_add(_right_shift(score_bytes, ii), gew),
                      _add(_right_shift(score_bytes, m), gow)),
                 _nuc_prior),
            infinity, band_size - 1)

(* C15: a back-pointer lane is the low two bits of M, of I two bits up and *)
(* of D six bits up; each field is 0, 1 or 3 and every other bit is 0.     *)
PackedLane(m, ii, d) == (m % 4) + 4 * (ii % 4) + 64 * (d % 4)
FieldsOf(word) == {word % 4, (word \div 4) % 4, (word \div 64) % 4}
C15_LanesWellFormed ==
    pc \in {"align_loop", "walk", "align_done"} =>
        \A h \in DOMAIN backpointers : \A k \in 0..(band_size - 1) :
            LET word == backpointers[h][k]
            IN  /\ FieldsOf(word) \subseteq {match_label, insert_label, delete_label}
                /\ word = PackedLane(word % 4, (word \div 4) % 4, (word \div 64) % 4)
C15_LanesPacked ==
    AlignIteration =>
        \A k \in 0..(band_size - 1) :
            /\ backpointers'[s][k] = PackedLane(EvenM1[k], EvenI1[k], EvenD1[k])
            /\ backpointers'[s + 1][k] =
                  PackedLane(OddM2[k],
                             OddI2(m1', i1', d1', gap_open_win', gap_extend_win')[k],
                             OddD2(m1', i1', d1', gap_open_win', gap_extend_win')[k])
C15_BackpointerPacking == []C15_LanesWellFormed /\ [][C15_LanesPacked]_vars
C15_Witness ==
    /\ pc = "walk" /\ band_size = sse2_band_size
    /\ \E h \in DOMAIN backpointers : \E k \in 0..(band_size - 1) :
          /\ backpointers[h][k] % 4 = delete_label
          /\ (backpointers[h][k] \div 64) % 4 = delete_label

(* C16: once a back-pointer vector is written every lane of M ends in the  *)
(* bits 00, of I in 01 and of D in 11, and the label step leaves the bits  *)
(* 2..15 of every lane as they were.                                       *)
LowBits(v) == [k \in Lanes(v) |-> v[k] % 4]
HighBits(v) == [k \in Lanes(v) |-> v[k] \div 4]
C16_LabelsInState ==
    (pc = "align_loop" /\ s > 0) =>
        /\ LowBits(m1) = vectorise(band_size, match_label)
        /\ LowBits(m2) = vectorise(band_size, match_label)
        /\ LowBits(i1) = vectorise(band_size, insert_label)
        /\ LowBits(i2) = vectorise(band_size, insert_label)
        /\ LowBits(d1) = vectorise(band_size, delete_label)
        /\ LowBits(d2) = vectorise(band_size, delete_label)
C16_LabelsInStep ==
    AlignIteration =>
        /\ HighBits(m1') = HighBits(EvenM1)
        /\ HighBits(i1') = HighBits(EvenI1)
        /\ HighBits(d1') = HighBits(EvenD1)
        /\ HighBits(m2') = HighBits(OddM2)
        /\ HighBits(i2') = HighBits(OddI2(m1', i1', d1', gap_open_win', gap_extend_win'))
        /\ HighBits(d2') = HighBits(OddD2(m1', i1', d1', gap_open_win', gap_extend_win'))
C16_LabelsSet == []C16_LabelsInState /\ [][C16_LabelsInStep]_vars

(* C17: a call whose read shares no base with the truth, with uniform gap  *)
(* penalties under which inserting the whole read in one run is cheaper    *)
(* than a single mismatch: both overloads return gO + (L-1)*gE + L*nP for  *)
(* the L bases of the read, nuc_prior charged once per inserted base.      *)
UniformValue(g) == IF g.ptr THEN g.val[1] ELSE g.val
InsertionRunCost(L) == UniformValue(gap_open) + (L - 1) * UniformValue(gap_extend) + L * nuc_prior
InsertionRunCall ==
    /\ AssertHolds /\ NoSaturation
    /\ UniformPositive(gap_open) /\ UniformPositive(gap_extend)
    /\ \A j \in DOMAIN target : \A k \in DOMAIN truth : target[j] # truth[k] /\ truth[k] # chN
    /\ \A j \in DOMAIN qualities : InsertionRunCost(target_len) < qualities[j]
C17_InsertionRunCharged ==
    InsertionRunCall =>
        /\ pc = "score_done" => score_result = InsertionRunCost(target_len)
        /\ pc = "align_done" => align_result = InsertionRunCost(target_len)

(* C18: no I field of a back-pointer holds the delete tag, so no returned  *)
(* alignment has a gap in align1 right after a gap in align2; a gap in     *)
(* align2 right after a gap in align1 is allowed, and is returned on a     *)
(* call whose cheapest alignment inserts a base and then deletes one.      *)
InsertionColumn(j) == align1[j] = gap_label
DeletionColumn(j) == align2[j] = gap_label
AlignmentReturned == pc = "align_done" /\ align_result # -1
C18_InsertionAfterDeletionOnly ==
    /\ pc \in {"align_loop", "walk", "align_done"} =>
          \A h \in DOMAIN backpointers : \A k \in 0..(band_size - 1) :
              (backpointers[h][k] \div 4) % 4 # delete_label
    /\ AlignmentReturned =>
          \A j \in 0..(StrLen(align1) - 2) : ~(DeletionColumn(j) /\ InsertionColumn(j + 1))
    /\ (pc = "align_done" /\ \E c \in ReplacedBaseCalls : IsCall(c)) =>
          /\ align_result = score_result
          /\ \E j \in 0..(StrLen(align1) - 2) : InsertionColumn(j) /\ DeletionColumn(j + 1)

(* C19: the emission of a lane is 0 when its target base is its truth base *)
(* and otherwise the lesser of quality << trace_bits and the cap of the    *)
(* truth base, n_score for N and infinity for any other; the truth base of *)
(* lane k is truth[s/2 + k] in the even half step and the next one in the  *)
(* odd, N past the end of truth.                                           *)
TruthBaseAt(p) == IF p < truth_len THEN At(truth, p) ELSE chN
EmissionOf(tb, trb, q) ==
    IF tb = trb THEN 0
    ELSE MinInt(Shl(q, trace_bits), IF trb = chN THEN n_score ELSE infinity)
C19_EmissionByLane ==
    InLoop =>
        \A k \in 0..(band_size - 1) :
            TargetLaneReal(k) =>
                /\ EvenEmission[k] =
                      EmissionOf(LaneBase(k), TruthBaseAt(s \div 2 + k), LaneQuality(k))
                /\ OddEmission[k] =
                      EmissionOf(LaneBase(k), TruthBaseAt(s \div 2 + k + 1), LaneQuality(k))
C19_Witness ==
    /\ pc = "align_loop" /\ InLoop /\ s > 0 /\ band_size = sse2_band_size
    /\ \E k \in 0..(band_size - 1) : \E j \in 0..(band_size - 1) :
          /\ TargetLaneReal(k) /\ TargetLaneReal(j)
          /\ LaneBase(k) # TruthBaseAt(s \div 2 + k) /\ TruthBaseAt(s \div 2 + k) # chN
          /\ EvenEmission[k] = Shl(LaneQuality(k), trace_bits)
          /\ LaneBase(j) = TruthBaseAt(s \div 2 + j) /\ EvenEmission[j] = 0

(* C20: whenever the walk is about to read a back-pointer at a half step   *)
(* outside the buffer or at a lane outside the vector, at the seed or in   *)
(* the loop, the call returns -1 with first_pos -1 instead of reading.     *)
OutOfRange(ss, ii) == ss < 0 \/ ss >= BpSize \/ ii < 0 \/ ii >= band_size
SeedDue == pc = "align_loop" /\ ~InLoop /\ minscoreidx >= 0
ReadDue == pc = "walk" /\ y > 0
FailureReturn == pc' = "align_done" /\ align_result' = -1 /\ first_pos' = -1
C20_OutOfRangeFails ==
    [][(\/ SeedDue /\ OutOfRange(minscoreidx, minscoreidx \div 2 - target_len)
        \/ ReadDue /\ OutOfRange(s, i)) => FailureReturn]_vars

(* C21: with penalties that are not negative and an alignment of the whole *)
(* read by substitutions alone below infinity / 4 (the cheapest alignment  *)
(* costs no more), no addition of the even half step leaves the range  *)
(* of a signed 16-bit lane, and the score-only overload returns no less    *)
(* than the cheapest alignment costs (no lane of a cell that cannot be     *)
(* reached wins the running minimum).                                      *)
AddFits(a, b) ==
    \A k \in Lanes(a) : LET sum == S16(a[k]) + S16(b[k])
                         IN  sum >= 0 - bitmask /\ sum < bitmask
NonNegative(g) == IF g.ptr THEN \A k \in DOMAIN g.val : g.val[k] >= 0 ELSE g.val >= 0
WithinHeadroom ==
    /\ AssertHolds
    /\ \A k \in DOMAIN qualities : qualities[k] >= 0
    /\ NonNegative(gap_open) /\ NonNegative(gap_extend) /\ nuc_prior >= 0
    /\ target_len * MaxOf(qualities) < infinity \div 4
C21_NoLaneLeavesRange ==
    WithinHeadroom =>
        /\ InLoop =>
              /\ AddFits(_min(SeededM1, _min(i1, d1)), EvenEmission)
              /\ AddFits(d2, gap_extend_win)
              /\ AddFits(_min(SeededM2, i2), _right_shift(score_bytes, gap_open_win))
              /\ AddFits(i2, gap_extend_win)
              /\ AddFits(SeededM2, gap_open_win)
              /\ AddFits(_min(_add(i2, gap_extend_win), _add(SeededM2, gap_open_win)),
                         _nuc_prior)
        /\ (pc = "score_done" /\ ~gap_extend.ptr /\ \A k \in DOMAIN truth : truth[k] # chN)
              => score_result >= MinCost

(* The returned pair re-scored column by column. Column j stands at truth   *)
(* position first_pos + (bases of align1 before j) and at target position   *)
(* (bases of align2 before j).                                              *)
TruthPosOf(j) == first_pos + Cardinality({k \in 0..(j - 1) : align1[k] # gap_label})
TargetPosOf(j) == Cardinality({k \in 0..(j - 1) : align2[k] # gap_label})
GapCharge(a, j) ==
    IF j > 0 /\ a[j - 1] = gap_label
    THEN PenaltyAt(gap_extend, TruthPosOf(j))
    ELSE PenaltyAt(gap_open, TruthPosOf(j))
ColumnCost(j) ==
    IF InsertionColumn(j) THEN GapCharge(align1, j) + nuc_prior
    ELSE IF DeletionColumn(j) THEN GapCharge(align2, j)
    ELSE IF align1[j] = align2[j] THEN 0
    ELSE IF align1[j] = chN
         THEN MinInt(At(qualities, TargetPosOf(j)), Shr(n_score, trace_bits))
         ELSE At(qualities, TargetPosOf(j))
RECURSIVE ColumnsCost(_, _)
ColumnsCost(from, to) ==
    IF from > to THEN 0
    ELSE IF from = to THEN ColumnCost(from)
    ELSE LET mid == (from + to) \div 2
         IN  ColumnsCost(from, mid) + ColumnsCost(mid + 1, to)
Rescored == ColumnsCost(0, StrLen(align1) - 1)

(* C22: a score other than -1 is what the returned pair of strings costs   *)
(* under the penalties of the call.                                        *)
C22_ScoreIsCostOfAlignment ==
    (AlignmentReturned /\ AssertHolds /\ StrLen(align1) = StrLen(align2)) =>
        align_result = Rescored

(* C23: in every iteration that folds an exit value into the running       *)
(* minimum, the lane asked of _extract is one of the B lanes.              *)
ExitDue == InLoop /\ s \div 2 >= target_len
ExitLane == s \div 2 - target_len
C23_ExitLaneInBand ==
    (ExitDue /\ AssertHolds) => ExitLane >= 0 /\ ExitLane <= band_size - 1

(* C24: on a call that meets the shape, every read of truth, target,       *)
(* qualities and the gap arrays is at an index of the array, in the loop   *)
(* and in the walk.                                                        *)
IndexOf(k, len) == k >= 0 /\ k <= len - 1
WalkReadDue == pc = "walk" /\ y > 0 /\ ~(s < 0 \/ i < 0)
WalkReadsWithin ==
    LET mv == WalkMove(state, s, i, x, y)
    IN  /\ ~mv.gap1 => IndexOf(mv.x, truth_len)
        /\ ~mv.gap2 => IndexOf(mv.y, target_len)
C24_ReadsWithinArrays ==
    AssertHolds =>
        /\ InLoop =>
              /\ s \div 2 < target_len => IndexOf(s \div 2, Len(target))
                                            /\ IndexOf(s \div 2, Len(qualities))
              /\ PosInRange => IndexOf(Pos, Len(truth))
              /\ gap_open.ptr => IndexOf(GapIdx, Len(gap_open.val))
              /\ gap_extend.ptr => IndexOf(GapIdx, Len(gap_extend.val))
        /\ WalkReadDue => WalkReadsWithin

(* C25: at the top of every iteration of the walk the cursors and the half *)
(* step agree: x + y = s + 2 and x - y = 2i + (s mod 2).                   *)
C25_CursorsFollowHalfStep ==
    pc = "walk" => /\ x + y = s + 2
                   /\ x - y = 2 * i + (s % 2)
C25_Witness ==
    /\ pc = "walk" /\ y > 0 /\ alnidx > 1 /\ s % 2 = 1
    /\ \E j \in 0..(alnidx - 1) : DeletionColumn(j)
    /\ \E j \in 0..(alnidx - 1) : ~DeletionColumn(j)
    /\ x + y = s + 2 /\ x - y = 2 * i + 1

(* C26: the walk ends whatever the back-pointers hold: every tag a read    *)
(* can deliver moves s down, the columns written plus the half steps left  *)
(* never exceed minscoreidx, and the loop is left with y = 0 and a score   *)
(* or through the return of -1.                                            *)
Tags == 0..3
C26_VariantInState ==
    pc = "walk" =>
        /\ s >= -2
        /\ alnidx + s + 2 <= minscoreidx
        /\ alnidx <= minscoreidx
        /\ \A st \in Tags : WalkMove(st, s, i, x, y).s < s
C26_VariantInStep ==
    pc = "walk" =>
        \/ pc' = "walk" /\ y > 0 /\ s >= 0 /\ s' < s /\ alnidx' = alnidx + 1
        \/ pc' = "align_done" /\ y = 0 /\ align_result' # -1
        \/ pc' = "align_done" /\ y > 0 /\ align_result' = -1 /\ first_pos' = -1
C26_WalkTerminates == []C26_VariantInState /\ [][C26_VariantInStep]_vars
C26_Witness ==
    /\ pc = "walk" /\ y = 0
    /\ alnidx > target_len /\ alnidx + s + 2 < minscoreidx

(* C27: a score other than -1 comes with a first_pos among the 2B start    *)
(* offsets, and the truth bases of align1 counted from first_pos do not    *)
(* pass the end of truth.                                                  *)
C27_FirstPosWithinTruth ==
    (AlignmentReturned /\ AssertHolds) =>
        /\ first_pos >= 0 /\ first_pos <= 2 * band_size - 1
        /\ first_pos + Cardinality(NonGaps(align1)) <= truth_len

(* C28: the running minimum of the overload with alignment.  Every exit    *)
(* value (the lane as extracted, tag bits included) is folded in; the     *)
(* index recorded is that of the first half step that reached the minimum, *)
(* a later half step with an equal value leaves it alone; as long as no    *)
(* exit value is below the initial infinity the index stays -1; and the    *)
(* score returned is the minimum without its tag bits.                     *)
ExitM1 == S16(_extract(_min(SeededM1, _min(i1, d1)), ExitLane))
ExitM2 == S16(_extract(_min(SeededM2, _min(i2, d2)), ExitLane))
C28_MinimumInState ==
    /\ pc = "align_loop" =>
          /\ minscore <= infinity
          /\ minscoreidx < s
          /\ (minscoreidx = -1) <=> (minscore = infinity)
          /\ minscoreidx >= 0 => minscoreidx \div 2 >= target_len
    /\ AlignmentReturned =>
          align_result = ((minscore - (minscore % (2 ^ trace_bits))) + bitmask) \div (2 ^ trace_bits)
C28_MinimumInStep ==
    AlignIteration =>
        IF ExitDue
        THEN LET least == MinInt(ExitM1, ExitM2)
             IN  /\ minscore' = MinInt(minscore, least)
                 /\ least >= minscore => minscoreidx' = minscoreidx
                 /\ least < minscore => minscoreidx' = (IF ExitM1 = least THEN s ELSE s + 1)
        ELSE minscore' = minscore /\ minscoreidx' = minscoreidx
C28_EarliestMinimum == []C28_MinimumInState /\ [][C28_MinimumInStep]_vars
C28_Witness ==
    /\ pc = "align_loop" /\ ExitDue
    /\ minscoreidx >= 0 /\ minscoreidx < s - 2
    /\ ExitM1 = minscore /\ ExitM2 > minscore

(* The gap penalties a deletion is charged.  The deletion that takes lane  *)
(* k to the next truth base deletes base s/2 + k + 1; it is opened at the  *)
(* entry of that base in both half steps, and extended at it in the odd    *)
(* half step.                                                              *)
DeletedBase(k) == s \div 2 + k + 1
EntryOf(g, p) == Shl(At(g.val, p), trace_bits)
EvenOpenCharge == _right_shift(score_bytes, gap_open_win)
EvenExtendCharge == gap_extend_win
OddOpenCharge == update_gap_penalty(trace_bits, gap_open_win, gap_open, GapIdx)
OddExtendCharge == update_gap_penalty(trace_bits, gap_extend_win, gap_extend, GapIdx)
DeletionLanes == {k \in 0..(band_size - 2) : DeletedBase(k) < truth_len}
OpenedAtDeletedBase ==
    (InLoop /\ AssertHolds /\ gap_open.ptr) =>
        \A k \in DeletionLanes :
            /\ EvenOpenCharge[k] = EntryOf(gap_open, DeletedBase(k))
            /\ OddOpenCharge[k] = EntryOf(gap_open, DeletedBase(k))
OddExtendedAtDeletedBase ==
    (InLoop /\ AssertHolds /\ gap_extend.ptr) =>
        \A k \in DeletionLanes : OddExtendCharge[k] = EntryOf(gap_extend, DeletedBase(k))

(* C29: with gap_extend given per position, a deletion is extended over a  *)
(* truth base at the entry of that base, in the even half step (D1) as in  *)
(* the odd one (D2).                                                       *)
C29_ExtendedAtDeletedBase ==
    (InLoop /\ AssertHolds /\ gap_extend.ptr) =>
        \A k \in DeletionLanes :
            /\ EvenExtendCharge[k] = EntryOf(gap_extend, DeletedBase(k))
            /\ OddExtendCharge[k] = EntryOf(gap_extend, DeletedBase(k))

(* C30: on every call the score-only overload returns a value from 0 to    *)
(* (infinity + bitmask) >> trace_bits, and the overload with alignment     *)
(* returns -1 or a value in that range.                                    *)
ScoreRange == 0..Shr(infinity + bitmask, trace_bits)
C30_ScoresInRange ==
    /\ pc = "score_done" => score_result \in ScoreRange
    /\ pc = "align_done" => (align_result = -1 \/ align_result \in ScoreRange)
C30_Witness ==
    /\ pc = "align_done"
    /\ score_result = Shr(infinity + bitmask, trace_bits)
    /\ align_result = -1 /\ minscoreidx = -1
====
